---- MODULE Spec2Model ----
(***************************************************************************)
(* Master-data loader, lookup operation, output assembly and processing    *)
(* session of the PO/invoice processing assistant (src/app.py,             *)
(* src/invoice_Agent.py).                                                  *)
(*                                                                         *)
(* Text is a sequence of one-character strings.  A formatted message       *)
(* (an f-string) is the concatenation of its fixed fragments, each kept as *)
(* one token, and of the characters of the values it interpolates.         *)
(***************************************************************************)
EXTENDS Integers, Sequences, FiniteSets, TLC

\* ------------------------------------------------------------------ bounds
MaxSources == 2
MaxCalls == 2
MaxFields == 2

\* -------------------------------------------------------------------- text
Range(s) == {s[i] : i \in DOMAIN s}

Whitespace == {" "}

RECURSIVE LStrip(_)
LStrip(s) ==
    IF s # <<>> /\ Head(s) \in Whitespace THEN LStrip(Tail(s)) ELSE s

RECURSIVE RStrip(_)
RStrip(s) ==
    IF s # <<>> /\ s[Len(s)] \in Whitespace
    THEN RStrip(SubSeq(s, 1, Len(s) - 1))
    ELSE s

\* str.strip()
Strip(s) == RStrip(LStrip(s))

\* the case folding re.IGNORECASE applies, on the letters the model uses
Lower(c) ==
    CASE c = "A" -> "a"
      [] c = "B" -> "b"
      [] c = "C" -> "c"
      [] c = "N" -> "n"
      [] c = "Q" -> "q"
      [] OTHER -> c

\* t occurs in s as a contiguous run of tokens
Contains(s, t) ==
    \E off \in 0..(Len(s) - Len(t)) :
        \A k \in 1..Len(t) : s[off + k] = t[k]

\* ------------------------------------------------------------------- cells
NaN == [t |-> "nan", v |-> <<>>]
Txt(s) == [t |-> "str", v |-> s]

\* str(value) / astype(str): an empty cell reads "nan"
Str(cell) == IF cell.t = "nan" THEN <<"n", "a", "n">> ELSE cell.v

\* a value between quotes, as '{value}' in an f-string and as repr of a str
Quoted(s) == <<"'">> \o s \o <<"'">>

\* repr of a list of str: ['a', 'b']
RECURSIVE ReprItems(_)
ReprItems(l) ==
    IF l = <<>> THEN <<>>
    ELSE Quoted(Head(l))
         \o (IF Len(l) > 1 THEN <<", ">> ELSE <<>>) \o ReprItems(Tail(l))

ReprList(l) == <<"[">> \o ReprItems(l) \o <<"]">>

\* ------------------------------------------------------------ dict of tables
\* A dict keeps insertion order; assigning an existing key keeps its place.
DictKeys(md) == [i \in DOMAIN md |-> md[i].key]

HasKey(md, k) == \E i \in DOMAIN md : md[i].key = k

DictGet(md, k) == md[CHOOSE i \in DOMAIN md : md[i].key = k].df

DictSet(md, k, df) ==
    IF HasKey(md, k)
    THEN [i \in DOMAIN md |-> IF md[i].key = k THEN [key |-> k, df |-> df] ELSE md[i]]
    ELSE Append(md, [key |-> k, df |-> df])

\* ------------------------------------------------------------------ loader
\* faulty variant: every sheet is read with sheet_name=0
ReadExcelFirstSheet(src, i, j) ==
    [columns |-> src.sheets[1].header,
     rows    |-> src.sheets[1].rows,
     origin  |-> <<i, 1>>]

\* pd.read_excel of sheet j of source i; origin records where the rows came from
ReadExcel(src, i, j) ==
    [columns |-> src.sheets[j].header,
     rows    |-> src.sheets[j].rows,
     origin  |-> <<i, j>>]

\* faulty variant: df.columns.str.lstrip() leaves trailing whitespace
StripColumnsLeft(df) ==
    [df EXCEPT !.columns = [k \in DOMAIN @ |-> LStrip(@[k])]]

\* df.columns = df.columns.str.strip()
StripColumns(df) ==
    [df EXCEPT !.columns = [k \in DOMAIN @ |-> Strip(@[k])]]

\* faulty variant: the sheet name is left out of the key
SheetKeyNoSheet(file_name, sheet_name) == file_name

\* f"{file_name}_{sheet_name}"
SheetKey(file_name, sheet_name) == file_name \o <<"_">> \o sheet_name

\* for sheet_name in excel_file.sheet_names, from sheet j on; a sheet that
\* cannot be read raises out of the loop into the source's except clause
RECURSIVE LoadSheets(_, _, _, _)
LoadSheets(md, src, i, j) ==
    IF j > Len(src.sheets) THEN [md |-> md, failed |-> FALSE]
    ELSE IF ~src.sheets[j].ok THEN [md |-> md, failed |-> TRUE]
    ELSE LoadSheets(DictSet(md, SheetKey(src.name, src.sheets[j].name),
                            StripColumns(ReadExcel(src, i, j))),
                    src, i, j + 1)

\* the body of the try block for one source
LoadSource(md, src, i) ==
    IF ~src.ok THEN [md |-> md, failed |-> TRUE]
    ELSE IF Len(src.sheets) = 1
    THEN IF ~src.sheets[1].ok THEN [md |-> md, failed |-> TRUE]
         ELSE [md |-> DictSet(md, src.name, StripColumns(ReadExcel(src, i, 1))),
               failed |-> FALSE]
    ELSE LoadSheets(md, src, i, 1)

\* faulty variant: the try block encloses the loop, so the first failing
\* source ends the loading
RECURSIVE LoadFromAbort(_, _, _)
LoadFromAbort(acc, srcs, i) ==
    IF i > Len(srcs) THEN acc
    ELSE LET r == LoadSource(acc.md, srcs[i], i)
         IN  IF r.failed
             THEN [md |-> r.md, reported |-> Append(acc.reported, i)]
             ELSE LoadFromAbort([md |-> r.md, reported |-> acc.reported], srcs, i + 1)

\* for file_name, file_bytes in ...: try ... except Exception: report
RECURSIVE LoadFrom(_, _, _)
LoadFrom(acc, srcs, i) ==
    IF i > Len(srcs) THEN acc
    ELSE LET r == LoadSource(acc.md, srcs[i], i)
         IN  LoadFrom([md |-> r.md,
                       reported |-> IF r.failed THEN Append(acc.reported, i)
                                    ELSE acc.reported],
                      srcs, i + 1)

load_master_data(srcs) == LoadFrom([md |-> <<>>, reported |-> <<>>], srcs, 1)

\* ------------------------------------------------------------------ lookup
\* An interpolated number, for the positions the model reaches
DecStr(n) == <<"0", "1", "2", "3", "4", "5", "6", "7", "8", "9">>[n + 1]

\* re.compile(pat): over the model's alphabet (letters, ".", "(") a pattern is
\* invalid exactly when it opens a group, which nothing can close
ReInvalid(pat) == "(" \in Range(pat)

\* str(re.error): missing ), unterminated subpattern at position <p>
ReErrorText(pat) ==
    LET p == CHOOSE k \in DOMAIN pat :
                 pat[k] = "(" /\ \A m \in 1..(k - 1) : pat[m] # "("
    IN  <<"missing ), unterminated subpattern at position ", DecStr(p - 1)>>

\* one pattern character against one text character under re.IGNORECASE:
\* "." matches any character (the alphabet holds no newline), every other
\* character matches itself
ReCharMatch(pc, tc) == pc = "." \/ Lower(pc) = Lower(tc)

\* regex.search(text) is not None, for a valid pattern
ReSearch(pat, text) ==
    \E off \in 0..(Len(text) - Len(pat)) :
        \A k \in 1..Len(pat) : ReCharMatch(pat[k], text[off + k])

\* Series.str.contains(pat, case=False, na=False): regex=True is the default
StrContains(text, pat) == ReSearch(pat, text)

\* df[lookup_column] / row[return_column]: the position of a column label
ColIndex(df, col) == CHOOSE k \in DOMAIN df.columns : df.columns[k] = col

HasColumn(df, col) == \E k \in DOMAIN df.columns : df.columns[k] = col

\* the boolean mask df[lookup_column].astype(str).str.contains(...)
Mask(df, lookup_column, lookup_value) ==
    [r \in DOMAIN df.rows |->
        StrContains(Str(df.rows[r][ColIndex(df, lookup_column)]), lookup_value)]

\* result.iloc[0]: the first row of df[mask]
FirstRow(mask) ==
    CHOOSE r \in DOMAIN mask : mask[r] /\ \A q \in 1..(r - 1) : ~mask[q]

\* lookup_column.strip(), return_column.strip()
StripArg(col) == Strip(col)

\* faulty variant: the stored table's columns are lower-cased on each lookup
CleanColumnsLower(df) ==
    [df EXCEPT !.columns =
        [k \in DOMAIN @ |-> [m \in DOMAIN @[k] |-> Lower(@[k][m])]]]

\* app.py: df.columns = df.columns.str.strip(), on the stored table
CleanColumns(df) == StripColumns(df)

\* faulty variant: the available keys are not listed
KeyMissingMsgNoKeys(impl, file_key, md) ==
    <<"Master data key ">> \o Quoted(file_key) \o <<" not found.">>

KeyMissingMsg(impl, file_key, md) ==
    IF impl = "agent"
    THEN <<"Master data key ">> \o Quoted(file_key)
         \o <<" not found. Available keys: ">> \o ReprList(DictKeys(md))
    ELSE <<"Master data file ">> \o Quoted(file_key)
         \o <<" not found. Available files: ">> \o ReprList(DictKeys(md))

\* faulty variant: the message names the table instead of the missing column
ColumnMissingMsgNoColumn(impl, col, file_key, df) ==
    <<"Column not found in ">> \o file_key
    \o <<". Available: ">> \o ReprList(df.columns)

ColumnMissingMsg(impl, col, file_key, df) ==
    IF impl = "agent"
    THEN <<"Column ">> \o Quoted(col) \o <<" not found in ">> \o file_key
         \o <<". Available: ">> \o ReprList(df.columns)
    ELSE <<"Column ">> \o Quoted(col) \o <<" not found in ">> \o file_key
         \o <<". Available columns: ">> \o ReprList(df.columns)

NoMatchMsg(impl, lookup_value, file_key, lookup_column) ==
    IF impl = "agent"
    THEN <<"Value ">> \o Quoted(lookup_value) \o <<" not found in ">> \o file_key
         \o <<" column ">> \o Quoted(lookup_column)
    ELSE <<"Value ">> \o Quoted(lookup_value) \o <<" not found in ">> \o file_key

ErrorMsg(impl, file_key, e) ==
    IF impl = "agent"
    THEN <<"Error during lookup in ">> \o Quoted(file_key) \o <<": ">> \o e
    ELSE <<"Error: ">> \o e

\* The outcome of one lookup: out is the returned text, kind the return
\* statement taken, scanned the rows line 34 (app.py: 44) went over, origin
\* the sheet the table read came from, md the collection afterwards.
LookupResult(out, kind, scanned, origin, md) ==
    [out |-> out, kind |-> kind, scanned |-> scanned, origin |-> origin, md |-> md]

\* the part of the lookup after both columns were found
LookupScan(impl, file_key, lc, lookup_value, rc, df, md) ==
    IF ReInvalid(lookup_value)
    THEN LookupResult(ErrorMsg(impl, file_key, ReErrorText(lookup_value)),
                      "error", Len(df.rows), df.origin, md)
    ELSE LET mask == Mask(df, lc, lookup_value)
         IN  IF \E r \in DOMAIN mask : mask[r]
             THEN LookupResult(Str(df.rows[FirstRow(mask)][ColIndex(df, rc)]),
                               "found", Len(df.rows), df.origin, md)
             ELSE LookupResult(NoMatchMsg(impl, lookup_value, file_key, lc),
                               "no_match", Len(df.rows), df.origin, md)

\* _lookup_master_data (impl = "agent") and lookup_master_data (impl = "app")
lookup_master_data(impl, file_key, lookup_column, lookup_value, return_column, md) ==
    IF ~HasKey(md, file_key)
    THEN LookupResult(KeyMissingMsg(impl, file_key, md), "key_missing", 0, <<0, 0>>, md)
    ELSE LET df0 == DictGet(md, file_key)
             df  == IF impl = "app" THEN CleanColumns(df0) ELSE df0
             md1 == IF impl = "app" THEN DictSet(md, file_key, df) ELSE md
             lc  == StripArg(lookup_column)
             rc  == StripArg(return_column)
         IN  IF ~HasColumn(df, lc)
             THEN LookupResult(ColumnMissingMsg(impl, lc, file_key, df),
                               "column_missing", 0, df.origin, md1)
             ELSE IF ~HasColumn(df, rc)
             THEN LookupResult(ColumnMissingMsg(impl, rc, file_key, df),
                               "column_missing", 0, df.origin, md1)
             ELSE LookupScan(impl, file_key, lc, lookup_value, rc, df, md1)

\* ---------------------------------------------------------- output assembly
\* An optional value: None, or a value that is present
None == [some |-> FALSE]
Some(x) == [some |-> TRUE, v |-> x]

\* The text handed to the emit callback is either not JSON, or the JSON text
\* of a flat object, kept as its <<name, value>> members in text order.
\* json.loads: a dict in member order; a repeated name keeps its first place
\* and takes the last value.
ObjHas(d, k) == \E i \in DOMAIN d : d[i][1] = k

ObjSet(d, k, v) ==
    IF ObjHas(d, k)
    THEN [i \in DOMAIN d |-> IF d[i][1] = k THEN <<k, v>> ELSE d[i]]
    ELSE Append(d, <<k, v>>)

RECURSIVE ObjFrom(_, _)
ObjFrom(d, pairs) ==
    IF pairs = <<>> THEN d
    ELSE ObjFrom(ObjSet(d, Head(pairs)[1], Head(pairs)[2]), Tail(pairs))

json_loads(doc) == ObjFrom(<<>>, doc.pairs)

\* str(json.JSONDecodeError)
JsonErrorText == <<"Expecting value: line 1 column 1 (char 0)">>

\* faulty variant: the columns come out in reverse key order
DataFrameReversed(data) ==
    LET n == Len(data)
    IN  [columns |-> [i \in DOMAIN data |-> data[n + 1 - i][1]],
         rows    |-> << [i \in DOMAIN data |-> data[n + 1 - i][2]] >>]

\* pd.DataFrame([data]): one row, one column per key, in key order
DataFrame(data) ==
    [columns |-> [i \in DOMAIN data |-> data[i][1]],
     rows    |-> << [i \in DOMAIN data |-> data[i][2]] >>]

\* csv.QUOTE_MINIMAL: a field is quoted when it holds the delimiter, the quote
\* character or a line break
CsvNeedsQuote(f) == \E i \in DOMAIN f : f[i] \in {",", "\"", "\n"}

\* a quote character inside a quoted field is doubled
RECURSIVE CsvDouble(_)
CsvDouble(f) ==
    IF f = <<>> THEN <<>>
    ELSE (IF Head(f) = "\"" THEN <<"\"", "\"">> ELSE <<Head(f)>>) \o CsvDouble(Tail(f))

\* faulty variant: quotes inside a quoted field are not doubled
CsvFieldPlainQuotes(f) ==
    IF CsvNeedsQuote(f) THEN <<"\"">> \o f \o <<"\"">> ELSE f

CsvField(f) ==
    IF CsvNeedsQuote(f) THEN <<"\"">> \o CsvDouble(f) \o <<"\"">> ELSE f

RECURSIVE CsvJoin(_)
CsvJoin(fields) ==
    IF fields = <<>> THEN <<>>
    ELSE CsvField(Head(fields))
         \o (IF Len(fields) > 1 THEN <<",">> ELSE <<>>) \o CsvJoin(Tail(fields))

\* csv writerow with lineterminator "\n": a row that is one empty field is
\* written as "" so that it is not an empty line
CsvRow(fields) ==
    IF fields = << <<>> >> THEN <<"\"", "\"", "\n">>
    ELSE CsvJoin(fields) \o <<"\n">>

\* df.to_csv(index=False): the header row, then the data rows
RECURSIVE CsvRows(_)
CsvRows(rows) ==
    IF rows = <<>> THEN <<>> ELSE CsvRow(Head(rows)) \o CsvRows(Tail(rows))

to_csv(df) == CsvRow(df.columns) \o CsvRows(df.rows)

\* What generate_output_csv returns: the message, the CSV text or None, and
\* the data (invoice_Agent.py: the parsed object; app.py: the DataFrame)
GenerateMsg(impl, output_filename, ok, e) ==
    IF ~ok THEN <<"Error generating CSV: ">> \o e
    ELSE IF impl = "agent" THEN <<"Successfully generated CSV data">>
    ELSE <<"Successfully generated CSV file: ">> \o output_filename

\* _generate_output_csv (impl = "agent") and generate_output_csv (impl = "app")
generate_output_csv(impl, doc, output_filename) ==
    IF ~doc.valid
    THEN [msg |-> GenerateMsg(impl, output_filename, FALSE, JsonErrorText),
          csv |-> None, data |-> None]
    ELSE LET data == json_loads(doc)
             df   == DataFrame(data)
         IN  [msg  |-> GenerateMsg(impl, output_filename, TRUE, <<>>),
              csv  |-> Some(to_csv(df)),
              data |-> IF impl = "agent" THEN Some(data) ELSE Some(df)]

\* if csv_data: a str is true when it is not empty
Truthy(csv) == csv.some /\ csv.v # <<>>

NoOutput == [set |-> FALSE]

\* faulty variant: the outputs are assigned whether or not csv_data is set
StoreOutputAlways(impl, doc, output_filename, r, output) ==
    IF ~Truthy(r.csv) THEN NoOutput
    ELSE IF impl = "agent"
    THEN [set |-> TRUE, csv |-> r.csv.v, json |-> r.data.v]
    ELSE [set |-> TRUE, csv |-> r.csv.v, df |-> r.data.v,
          filename |-> output_filename, json |-> json_loads(doc)]

\* faulty variant: the new CSV text is appended to the text already stored
StoreOutputAppend(impl, doc, output_filename, r, output) ==
    IF ~Truthy(r.csv) THEN output
    ELSE LET text == (IF output.set THEN output.csv ELSE <<>>) \o r.csv.v
         IN  IF impl = "agent"
             THEN [set |-> TRUE, csv |-> text, json |-> r.data.v]
             ELSE [set |-> TRUE, csv |-> text, df |-> r.data.v,
                   filename |-> output_filename, json |-> json_loads(doc)]

\* generate_csv_tool: the assignments under "if csv_data:" to
\* final_csv_data/final_json_data (agent) or to st.session_state (app)
StoreOutput(impl, doc, output_filename, r, output) ==
    IF ~Truthy(r.csv) THEN output
    ELSE IF impl = "agent"
    THEN [set |-> TRUE, csv |-> r.csv.v, json |-> r.data.v]
    ELSE [set |-> TRUE, csv |-> r.csv.v, df |-> r.data.v,
          filename |-> output_filename, json |-> json_loads(doc)]

\* ------------------------------------------------------------------ inputs
\* Source names and sheet names: "f" with a sheet "b" and a source "f_b" both
\* yield the key "f_b".
SourceNames == {<<"f">>, <<"f", "_", "b">>}

\* Two sheets declaring the same columns N and C; the first with padded headers.
HeaderPadded == << <<" ", "N", " ">>, <<"C", " ">> >>
HeaderPlain == << <<"N">>, <<"C">> >>

RowsA == << <<Txt(<<"a", "b">>), Txt(<<"x">>)>>,
            <<Txt(<<"a", ".">>), Txt(<<"y">>)>> >>
RowsB == << <<Txt(<<"(">>), Txt(<<"z">>)>>,
            <<NaN, Txt(<<"w">>)>> >>

Sheet(name, ok, header, rows) ==
    [name |-> name, ok |-> ok, header |-> header, rows |-> rows]

\* The workbooks a source may hold: unparsable bytes, one sheet, two sheets,
\* and two sheets of which the second cannot be read.
Workbooks ==
    { [ok |-> FALSE, sheets |-> <<>>],
      [ok |-> TRUE, sheets |-> <<Sheet(<<"S">>, TRUE, HeaderPadded, RowsA)>>],
      [ok |-> TRUE, sheets |-> <<Sheet(<<"b">>, TRUE, HeaderPadded, RowsA),
                                 Sheet(<<"c">>, TRUE, HeaderPlain, RowsB)>>],
      [ok |-> TRUE, sheets |-> <<Sheet(<<"b">>, TRUE, HeaderPlain, RowsB),
                                 Sheet(<<"c">>, FALSE, <<>>, <<>>)>>] }

Sources ==
    {[name |-> n, ok |-> w.ok, sheets |-> w.sheets] : n \in SourceNames, w \in Workbooks}

\* app.py takes a list of uploaded files, the agent a dict keyed by file name
SourceLists(e) ==
    LET all == UNION {[1..n -> Sources] : n \in (IF e = "agent" THEN 0 ELSE 1)..MaxSources}
    IN  IF e = "agent"
        THEN {l \in all : \A i, j \in DOMAIN l : i # j => l[i].name # l[j].name}
        ELSE all

\* What the external model may pass to lookup_tool
AskedKeys == {<<"f", "_", "b">>, <<"f", "_", "c">>}
AskedLookupColumns == {<<" ", "N", " ">>, <<"Q">>}
AskedReturnColumns == {<<"C">>, <<"Q", " ">>}
AskedValues == {<<"B">>, <<"a", ".">>, <<"(">>}

\* <<lookup_column, lookup_value, return_column>>: every value against the
\* columns that exist; with a column that does not, the value that cannot compile
AskedArgs ==
    {a \in AskedLookupColumns \X AskedValues \X AskedReturnColumns :
        (a[1] = <<"Q">> \/ a[3] = <<"Q", " ">>) =>
            (a[2] = <<"(">> /\ ~(a[1] = <<"Q">> /\ a[3] = <<"Q", " ">>))}

\* <<file_key, arguments>>: a column that does not exist is asked of one table
AskedQueries ==
    {q \in AskedKeys \X AskedArgs :
        (q[2][1] = <<"Q">> \/ q[2][3] = <<"Q", " ">>) => q[1] = <<"f", "_", "b">>}

\* the texts handed to generate_csv_tool in a session: two records and a text
\* that is not JSON
NotJson == [valid |-> FALSE, pairs |-> <<>>]
RecordOne == [valid |-> TRUE, pairs |-> << <<<<"P">>, <<"a">>>> >>]
RecordTwo == [valid |-> TRUE, pairs |-> << <<<<"V">>, <<"a", ",">>>>, <<<<"P">>, <<>>>> >>]
AskedRecords == {NotJson, RecordOne, RecordTwo}

\* output_filename is an argument of app.py's generate_csv_tool only
AskedFilenames(e) == IF e = "app" THEN {<<"o", ".", "c", "s", "v">>} ELSE {<<>>}

\* field names and values handed to the output assembly on its own: empty
\* values, and values and names holding commas, quotes and line breaks
CsvNames == {<<"P">>, <<"V">>, <<"P", ",">>}

CsvValues ==
    {<<>>, <<"a">>, <<",">>, <<"\"">>, <<"\n">>, <<"a", ",">>, <<"\"", "a">>,
     <<"\"", "\"">>, <<"a", "\n", "a">>}

CsvPairs == {<<k, v>> : k \in CsvNames, v \in CsvValues}

\* JSON texts of flat objects of 1..MaxFields members (a name may repeat), and
\* a text that is not JSON
CsvDocs ==
    {NotJson} \cup
    UNION {{[valid |-> TRUE, pairs |-> p] : p \in [1..n -> CsvPairs]} : n \in 1..MaxFields}

\* ------------------------------------------------------------------- state
VARIABLES
    entry,         \* "app": the Process Documents action, "agent": query()
    sources,       \* the master-data sources handed to the loader
    pc,            \* where the session stands
    master_data,   \* the Lookup Table Collection (master_data / master_data_dfs)
    loaded,        \* what the loader returned (kept for comparison)
    reported,      \* the sources the loader reported as failed, by position
    tempdir,       \* the temporary directory exists
    uploaded,      \* documents uploaded to the external service
    deleted,       \* uploaded documents deleted again
    sent,          \* chat.send_message was called
    last,          \* the most recent callback: its arguments and what it returned
    tool_results,  \* the agent's tool_results list
    result,        \* what the session reported to its caller
    output,        \* final_csv_data/final_json_data (agent); the csv_output,
                   \* output_df, output_filename, processed_data entries of
                   \* st.session_state (app)
    returned,      \* what the session hands back: the dict query() returns
                   \* (agent), the downloads the page offers (app)
    calls,         \* the callbacks invoked during query(), in order (kept for comparison)
    lastgood      \* the record of this run's latest successful emit (kept for comparison)

vars == <<entry, sources, pc, master_data, loaded, reported, tempdir, uploaded,
          deleted, sent, last, tool_results, result, output, returned, calls,
          lastgood>>

\* documents written and uploaded: invoice and jira (agent); po, invoice, jira (app)
NDocs(e) == IF e = "agent" THEN 2 ELSE 3

NoCall == [tool |-> "none"]

NoReturn == [keys |-> {}]

Init ==
    /\ entry \in {"app", "agent"}
    /\ sources \in SourceLists(entry)
    /\ pc = "start"
    /\ master_data = <<>>
    /\ loaded = <<>>
    /\ reported = <<>>
    /\ tempdir = FALSE
    /\ uploaded = 0
    /\ deleted = 0
    /\ sent = FALSE
    /\ last = NoCall
    /\ tool_results = <<>>
    /\ result = "none"
    /\ output = NoOutput
    /\ returned = NoReturn
    /\ calls = <<>>
    /\ lastgood = None

\* the dict query() returns on its error paths
ErrorDict == [keys |-> {"error"}]

\* the dict query() returns when processing completed
CompleteDict(out, results) ==
    [keys |-> {"message", "raw_response", "tool_calls", "csv_data", "json_data"},
     csv_data |-> IF out.set THEN Some(out.csv) ELSE None,
     json_data |-> IF out.set THEN Some(out.json) ELSE None,
     tool_calls |-> results]

\* what the page shows after a run: the display block under
\* "if 'csv_output' in st.session_state" when the run completed, nothing of it
\* when the run ended in the except clause
Page(completed, out) ==
    [keys |-> {},
     csv_data |-> IF completed /\ out.set THEN Some(out.csv) ELSE None,
     json_data |-> IF completed /\ out.set THEN Some(out.json) ELSE None]

Handed(impl, completed, out, results) ==
    IF impl = "agent"
    THEN IF completed THEN CompleteDict(out, results) ELSE ErrorDict
    ELSE Page(completed, out)

\* base64.b64decode raises on one of the inputs: query() returns an error dict
\* before anything is loaded (a failing model selection returns the same way)
DecodeFails ==
    /\ pc = "start"
    /\ entry = "agent"
    /\ pc' = "rejected"
    /\ result' = "error"
    /\ returned' = ErrorDict
    /\ UNCHANGED <<entry, sources, master_data, loaded, reported, tempdir, uploaded,
                   deleted, sent, last, tool_results, output, calls, lastgood>>

\* master_data = load_master_data_files(...) (app.py 281);
\* master_data_dfs = _load_master_data_from_bytes(...) and the empty check
\* (invoice_Agent.py 142-144); then the temporary directory is created
LoadMasterData ==
    /\ pc = "start"
    /\ LET r == load_master_data(sources)
       IN  /\ master_data' = r.md
           /\ loaded' = r.md
           /\ reported' = r.reported
           /\ IF entry = "agent" /\ r.md = <<>>
              THEN /\ pc' = "returned"
                   /\ result' = "error"
                   /\ returned' = ErrorDict
                   /\ tempdir' = FALSE
              ELSE /\ pc' = "upload"
                   /\ result' = result
                   /\ returned' = returned
                   /\ tempdir' = TRUE
    /\ UNCHANGED <<entry, sources, uploaded, deleted, sent, last, tool_results,
                   output, calls, lastgood>>

\* The finally clause of the agent calls delete() on every uploaded file (a
\* delete that raises is caught and logged; here every delete succeeds);
\* app.py has no such clause and deletes none.
Cleanup == IF entry = "agent" THEN uploaded ELSE deleted

\* genai.upload_file(...) succeeds
UploadFile ==
    /\ pc = "upload"
    /\ uploaded < NDocs(entry)
    /\ uploaded' = uploaded + 1
    /\ UNCHANGED <<entry, sources, pc, master_data, loaded, reported, tempdir,
                   deleted, sent, last, tool_results, result, output, returned,
                   calls, lastgood>>

\* genai.upload_file(...) raises
UploadFails ==
    /\ pc = "upload"
    /\ uploaded < NDocs(entry)
    /\ deleted' = Cleanup
    /\ tempdir' = FALSE
    /\ result' = "error"
    /\ returned' = Handed(entry, FALSE, output, tool_results)
    /\ pc' = "returned"
    /\ UNCHANGED <<entry, sources, master_data, loaded, reported, uploaded, sent,
                   last, tool_results, output, calls, lastgood>>

\* chat.send_message([...]) is called with the prompt and the uploaded documents
SendMessage ==
    /\ pc = "upload"
    /\ uploaded = NDocs(entry)
    /\ sent' = TRUE
    /\ pc' = "chat"
    /\ UNCHANGED <<entry, sources, master_data, loaded, reported, tempdir, uploaded,
                   deleted, last, tool_results, result, output, returned, calls,
                   lastgood>>

\* faulty variant: an entry equal to the latest one is not appended again
LogCallOnce(impl, results, e) ==
    IF impl = "agent" /\ (results = <<>> \/ results[Len(results)] # e)
    THEN Append(results, e) ELSE results

\* tool_results.append({...}) in the agent's callbacks; app.py keeps no list
LogCall(impl, results, e) ==
    IF impl = "agent" THEN Append(results, e) ELSE results

\* the external model invokes lookup_tool
LookupTool ==
    /\ pc = "chat"
    /\ entry = "agent" => Len(calls) < MaxCalls
    /\ \E q \in AskedQueries :
         LET k == q[1]
             a == q[2]
             r == lookup_master_data(entry, k, a[1], a[2], a[3], master_data)
             args == [file_key |-> k, lookup_column |-> a[1],
                      lookup_value |-> a[2], return_column |-> a[3]]
         IN  /\ master_data' = r.md
             /\ last' = [tool |-> "lookup_tool", args |-> args, result |-> r.out,
                         kind |-> r.kind, scanned |-> r.scanned, origin |-> r.origin]
             /\ tool_results' =
                    LogCall(entry, tool_results,
                            [tool |-> "lookup_tool", args |-> args, result |-> r.out])
    /\ calls' = IF entry = "agent" THEN Append(calls, "lookup_tool") ELSE calls
    /\ UNCHANGED <<entry, sources, pc, loaded, reported, tempdir, uploaded, deleted,
                   sent, result, output, returned, lastgood>>

\* the external model invokes generate_csv_tool
GenerateCsvTool ==
    /\ pc = "chat"
    /\ entry = "agent" => Len(calls) < MaxCalls
    /\ \E doc \in AskedRecords, fn \in AskedFilenames(entry) :
         LET r == generate_output_csv(entry, doc, fn)
         IN  /\ output' = StoreOutput(entry, doc, fn, r, output)
             /\ last' = [tool |-> "generate_csv_tool",
                         args |-> [doc |-> doc, output_filename |-> fn],
                         result |-> r.msg,
                         kind |-> IF r.csv.some THEN "generated" ELSE "error"]
             /\ tool_results' =
                    LogCall(entry, tool_results,
                            [tool |-> "generate_csv_tool",
                             args |-> [invoice_data_json |-> "true"],
                             result |-> r.msg])
             /\ lastgood' = IF r.csv.some THEN Some(doc) ELSE lastgood
    /\ calls' = IF entry = "agent" THEN Append(calls, "generate_csv_tool") ELSE calls
    /\ UNCHANGED <<entry, sources, pc, master_data, loaded, reported, tempdir,
                   uploaded, deleted, sent, result, returned>>

\* send_message returns the model's response
ModelReplies ==
    /\ pc = "chat"
    /\ deleted' = Cleanup
    /\ tempdir' = FALSE
    /\ result' = "complete"
    /\ returned' = Handed(entry, TRUE, output, tool_results)
    /\ pc' = "returned"
    /\ UNCHANGED <<entry, sources, master_data, loaded, reported, uploaded, sent,
                   last, tool_results, output, calls, lastgood>>

\* send_message raises
ModelFails ==
    /\ pc = "chat"
    /\ deleted' = Cleanup
    /\ tempdir' = FALSE
    /\ result' = "error"
    /\ returned' = Handed(entry, FALSE, output, tool_results)
    /\ pc' = "returned"
    /\ UNCHANGED <<entry, sources, master_data, loaded, reported, uploaded, sent,
                   last, tool_results, output, calls, lastgood>>

\* The user presses Process Documents again in the same browser session: the
\* script runs anew, and only st.session_state is carried over.
ProcessAgain ==
    /\ pc = "returned"
    /\ entry = "app"
    /\ pc' = "start"
    /\ master_data' = <<>>
    /\ loaded' = <<>>
    /\ reported' = <<>>
    /\ tempdir' = FALSE
    /\ uploaded' = 0
    /\ deleted' = 0
    /\ sent' = FALSE
    /\ last' = NoCall
    /\ result' = "none"
    /\ returned' = NoReturn
    /\ calls' = <<>>
    /\ lastgood' = None
    /\ UNCHANGED <<entry, sources, tool_results, output>>

Next ==
    \/ DecodeFails
    \/ LoadMasterData
    \/ UploadFile
    \/ UploadFails
    \/ SendMessage
    \/ LookupTool
    \/ GenerateCsvTool
    \/ ModelReplies
    \/ ModelFails
    \/ ProcessAgain

Spec == Init /\ [][Next]_vars

\* The output assembly on its own: generate_output_csv / _generate_output_csv
\* applied to a text, its outcome kept in last.
InitCsv ==
    /\ entry \in {"app", "agent"}
    /\ sources = <<>>
    /\ pc = "assemble"
    /\ master_data = <<>>
    /\ loaded = <<>>
    /\ reported = <<>>
    /\ tempdir = FALSE
    /\ uploaded = 0
    /\ deleted = 0
    /\ sent = FALSE
    /\ last = NoCall
    /\ tool_results = <<>>
    /\ result = "none"
    /\ output = NoOutput
    /\ returned = NoReturn
    /\ calls = <<>>
    /\ lastgood = None

GenerateOutputCsv ==
    /\ pc = "assemble"
    /\ \E doc \in CsvDocs, fn \in AskedFilenames(entry) :
         LET r == generate_output_csv(entry, doc, fn)
         IN  last' = [tool |-> "generate_output_csv",
                      args |-> [doc |-> doc, output_filename |-> fn],
                      result |-> r.msg, csv |-> r.csv, data |-> r.data]
    /\ pc' = "assembled"
    /\ UNCHANGED <<entry, sources, master_data, loaded, reported, tempdir,
                   uploaded, deleted, sent, tool_results, result, output,
                   returned, calls, lastgood>>

NextCsv == GenerateOutputCsv

SpecCsv == InitCsv /\ [][NextCsv]_vars

\* ================================================================== claims
\* What the claims speak of, stated apart from the code's own operators.
LastLookup == last.tool = "lookup_tool"

\* the loader has run in this session: query() did not return at the decoding
\* of its inputs
LoaderRan == pc \notin {"start", "rejected"}

\* v occurs in text as a literal substring, letter case ignored
LiteralCI(text, v) ==
    \E off \in 0..(Len(text) - Len(v)) :
        \A k \in 1..Len(v) : Lower(text[off + k]) = Lower(v[k])

\* the query of the last lookup addresses a table that holds both columns
LastResolved ==
    /\ LastLookup
    /\ HasKey(master_data, last.args.file_key)
    /\ LET df == DictGet(master_data, last.args.file_key)
       IN  /\ HasColumn(df, Strip(last.args.lookup_column))
           /\ HasColumn(df, Strip(last.args.return_column))

\* the rows of the addressed table whose lookup cell literally holds the value
LiteralHits ==
    LET df == DictGet(master_data, last.args.file_key)
        li == ColIndex(df, Strip(last.args.lookup_column))
    IN  {r \in DOMAIN df.rows : LiteralCI(Str(df.rows[r][li]), last.args.lookup_value)}

\* C1: with the table key and both columns present, the lookup returns the
\* text of return_column of the first row, in table order, whose lookup_column
\* text contains lookup_value as a case-insensitive literal substring, and
\* never returns a row whose text does not contain it.
C1_FirstLiteralMatch ==
    LastResolved =>
        LET df == DictGet(master_data, last.args.file_key)
            ri == ColIndex(df, Strip(last.args.return_column))
        IN  /\ LiteralHits # {} =>
                   LET first == CHOOSE r \in LiteralHits : \A q \in LiteralHits : r <= q
                   IN  /\ last.kind = "found"
                       /\ last.result = Str(df.rows[first][ri])
            /\ last.kind = "found" => LiteralHits # {}

\* C2: with the table key and both columns present and no row whose
\* lookup_column text contains lookup_value, the lookup returns a not-found
\* outcome that is not empty and names the searched value, the table key and
\* the lookup column.
C2_NoMatchNamesValueKeyColumn ==
    (LastResolved /\ LiteralHits = {}) =>
        /\ last.kind = "no_match"
        /\ last.result # <<>>
        /\ Contains(last.result, Quoted(last.args.lookup_value))
        /\ Contains(last.result, last.args.file_key)
        /\ Contains(last.result, Quoted(Strip(last.args.lookup_column)))

\* C3: a lookup whose table_key is not a key of the collection returns
\* normally an outcome that names the requested key and lists exactly the
\* keys of the collection, whatever the other three arguments are.
C3_KeyMissingOutcome ==
    (LastLookup /\ ~HasKey(master_data, last.args.file_key)) =>
        /\ last.kind = "key_missing"
        /\ Contains(last.result, Quoted(last.args.file_key))
        /\ Contains(last.result, ReprList(DictKeys(master_data)))
        /\ \A a \in AskedArgs :
               lookup_master_data(entry, last.args.file_key, a[1], a[2], a[3],
                                  master_data).out = last.result

C3_Witness ==
    /\ LastLookup
    /\ ~HasKey(master_data, last.args.file_key)
    /\ Len(master_data) = 2
    /\ last.args.lookup_value = <<"(">>

C5_CollectionUnchanged == LoaderRan => master_data = loaded

C5_Witness ==
    /\ entry = "app"
    /\ pc = "returned"
    /\ LastLookup
    /\ last.kind = "found"
    /\ \E i \in DOMAIN master_data : master_data[i].df.rows = RowsB

\* ------------------------------------------------------- claims on the loader
\* every sheet of the source parses
Readable(src) == src.ok /\ \A j \in DOMAIN src.sheets : src.sheets[j].ok

\* sheet j of source i was read and stored before anything in the source failed
SheetLoaded(i, j) ==
    sources[i].ok /\ \A m \in 1..j : sources[i].sheets[m].ok

\* the key the data model gives sheet j of source i
GeneratedKey(i, j) ==
    IF Len(sources[i].sheets) = 1
    THEN sources[i].name
    ELSE sources[i].name \o <<"_">> \o sources[i].sheets[j].name

AllSheets == UNION {{<<i, j>> : j \in DOMAIN sources[i].sheets} : i \in DOMAIN sources}

GeneratedKeys == {GeneratedKey(w[1], w[2]) : w \in AllSheets}

KeySet(md) == {md[i].key : i \in DOMAIN md}

\* N single-sheet sources, S sheets in the multi-sheet sources
NSingle == Cardinality({i \in DOMAIN sources : Len(sources[i].sheets) = 1})
SSheets == Cardinality({w \in AllSheets : Len(sources[w[1]].sheets) # 1})

AllReadable == \A i \in DOMAIN sources : Readable(sources[i])

\* C6 as stated: for readable sources the collection has exactly N + S keys,
\* the source name of each single-sheet source and {source}_{sheet} of each
\* sheet of a multi-sheet source, for every choice of names.
C6_KeyCountIsNPlusS ==
    (LoaderRan /\ AllReadable) =>
        /\ KeySet(loaded) = GeneratedKeys
        /\ Len(loaded) = NSingle + SSheets

\* C6 as amended: for readable sources the keys of the collection are exactly
\* the distinct generated keys (source name, or {source}_{sheet}); there are
\* N + S of them when the generated keys are pairwise distinct, and fewer when
\* two of them coincide.
C6_KeysAreGeneratedKeys ==
    (LoaderRan /\ AllReadable) =>
        /\ KeySet(loaded) = GeneratedKeys
        /\ Len(loaded) = Cardinality(GeneratedKeys)
        /\ Len(loaded) <= NSingle + SSheets
        /\ (\A v, w \in AllSheets :
                v # w => GeneratedKey(v[1], v[2]) # GeneratedKey(w[1], w[2]))
               => Len(loaded) = NSingle + SSheets

\* one single-sheet and one two-sheet source, three distinct keys
C6_Witness ==
    /\ LoaderRan
    /\ AllReadable
    /\ NSingle = 1
    /\ SSheets = 2
    /\ Len(loaded) = 3

\* C7: every stored column name equals its trimmed form, and a lookup gives
\* the same outcome whether its two column arguments are passed padded with
\* whitespace or already trimmed.
C7_ColumnsTrimmed ==
    /\ \A i \in DOMAIN master_data :
           \A k \in DOMAIN master_data[i].df.columns :
               master_data[i].df.columns[k] = Strip(master_data[i].df.columns[k])
    /\ LastLookup =>
           lookup_master_data(entry, last.args.file_key,
                              Strip(last.args.lookup_column), last.args.lookup_value,
                              Strip(last.args.return_column), master_data).out
               = last.result

\* a padded lookup column found a row in a table whose sheet had padded headers
C7_Witness ==
    /\ LastLookup
    /\ last.kind = "found"
    /\ last.args.lookup_column # Strip(last.args.lookup_column)
    /\ sources[last.origin[1]].sheets[last.origin[2]].header = HeaderPadded

\* C8: sources that fail to parse do not abort the loader: every readable
\* source, before or after a failing one, has its tables in the returned
\* collection, and exactly the failing sources are reported, once each.
C8_LoaderSkipsAndReports ==
    LoaderRan =>
        /\ \A w \in AllSheets :
               Readable(sources[w[1]]) => HasKey(loaded, GeneratedKey(w[1], w[2]))
        /\ Range(reported) = {i \in DOMAIN sources : ~Readable(sources[i])}
        /\ Len(reported) = Cardinality(Range(reported))

\* an unparsable source came first and a readable one after it
C8_Witness ==
    /\ LoaderRan
    /\ Len(sources) = 2
    /\ ~sources[1].ok
    /\ Readable(sources[2])
    /\ reported = <<1>>
    /\ loaded # <<>>

\* C9: in both entry points, when the loader returns an empty collection the
\* session stops with a reported error before any document is uploaded, any
\* message is sent or any lookup callback runs.
C9_EmptyCollectionStops ==
    (LoaderRan /\ loaded = <<>>) =>
        /\ pc = "returned"
        /\ result = "error"
        /\ uploaded = 0
        /\ ~sent
        /\ last = NoCall

\* the sheets stored under a key, and the one stored last
Writers(key) ==
    {w \in AllSheets : SheetLoaded(w[1], w[2]) /\ GeneratedKey(w[1], w[2]) = key}

LastWriter(key) ==
    CHOOSE w \in Writers(key) :
        \A x \in Writers(key) : w[1] > x[1] \/ (w[1] = x[1] /\ w[2] >= x[2])

\* C10 as stated: a lookup addressed to the key {source}_{sheet} of a sheet
\* scans and returns rows of that sheet of that source only.
C10_RowsFromAddressedSheet ==
    (LastLookup /\ HasKey(master_data, last.args.file_key)) =>
        \A w \in Writers(last.args.file_key) :
            (Len(sources[w[1]].sheets) # 1 /\ AllReadable /\ last.kind = "found")
                => last.origin = w

\* C10 as amended: a lookup addressed to a key scans and returns rows of one
\* sheet only, the last one in load order among the loaded sheets whose key
\* equals the addressed key; it is the addressed sheet itself whenever no
\* other loaded sheet yields the same key.
C10_RowsFromLastWriter ==
    (LastLookup /\ HasKey(master_data, last.args.file_key)) =>
        LET w == LastWriter(last.args.file_key)
            rows == sources[w[1]].sheets[w[2]].rows
        IN  /\ Writers(last.args.file_key) # {}
            /\ last.origin = w
            /\ last.kind = "found" =>
                   \E r \in DOMAIN rows : \E c \in DOMAIN rows[r] :
                       last.result = Str(rows[r][c])
            /\ Cardinality(Writers(last.args.file_key)) = 1 =>
                   \A x \in Writers(last.args.file_key) : last.origin = x

\* a row found under the key f_c of the second sheet of a two-sheet source
\* whose sheets declare the same columns
C10_Witness ==
    /\ LastLookup
    /\ last.kind = "found"
    /\ last.args.file_key = <<"f", "_", "c">>
    /\ last.origin[2] = 2
    /\ Len(sources[last.origin[1]].sheets) = 2

\* ------------------------------------------------ claims on the output assembly
\* The repository writes CSV text and never reads it back.  What the claims
\* call reading it back is a reader of comma-separated text with standard
\* quoting that keeps every field as text (as csv.reader does):
\* st.inq is set inside a quoted field, st.started once the field has begun
CsvEndField(st) ==
    [st EXCEPT !.row = Append(st.row, st.field), !.field = <<>>, !.started = FALSE]

CsvEndRow(st) ==
    IF st.row = <<>> /\ st.field = <<>> /\ ~st.started
    THEN [st EXCEPT !.rows = Append(st.rows, <<>>)]
    ELSE [st EXCEPT !.rows = Append(st.rows, Append(st.row, st.field)),
                    !.row = <<>>, !.field = <<>>, !.started = FALSE]

RECURSIVE CsvRead(_, _, _)
CsvRead(text, i, st) ==
    IF i > Len(text)
    THEN IF st.row = <<>> /\ st.field = <<>> /\ ~st.started THEN st.rows
         ELSE CsvEndRow(st).rows
    ELSE LET c == text[i]
         IN  IF st.inq
             THEN IF c = "\"" /\ i < Len(text) /\ text[i + 1] = "\""
                  THEN CsvRead(text, i + 2, [st EXCEPT !.field = Append(@, "\"")])
                  ELSE IF c = "\""
                  THEN CsvRead(text, i + 1, [st EXCEPT !.inq = FALSE])
                  ELSE CsvRead(text, i + 1, [st EXCEPT !.field = Append(@, c)])
             ELSE IF c = "\""
             THEN CsvRead(text, i + 1, [st EXCEPT !.inq = TRUE, !.started = TRUE])
             ELSE IF c = ","
             THEN CsvRead(text, i + 1, CsvEndField(st))
             ELSE IF c = "\n"
             THEN CsvRead(text, i + 1, CsvEndRow(st))
             ELSE CsvRead(text, i + 1,
                          [st EXCEPT !.field = Append(@, c), !.started = TRUE])

read_csv(text) ==
    CsvRead(text, 1, [rows |-> <<>>, row |-> <<>>, field |-> <<>>,
                      inq |-> FALSE, started |-> FALSE])

\* the assembly was last applied to the JSON text of a flat mapping
LastAssembled == last.tool = "generate_output_csv" /\ last.args.doc.valid

\* the mapping the text deserializes to, as <<name, value>> in key order
LastMapping == json_loads(last.args.doc)

\* The table the assembly produced, as its rows with the header first: the
\* DataFrame app.py returns; for the agent, which returns text only, the rows
\* read from that text.
LastTable ==
    IF entry = "app"
    THEN <<last.data.v.columns>> \o last.data.v.rows
    ELSE read_csv(last.csv.v)

\* C11: for every input that deserializes to a flat mapping of field names to
\* strings, the assembly succeeds and its table has exactly one data row, its
\* column sequence is the mapping's key order, and the cell of each column is
\* exactly the supplied value: nothing added, dropped, reordered or rewritten.
C11_OneRowInKeyOrder ==
    LastAssembled =>
        /\ last.csv.some
        /\ ~Contains(last.result, <<"Error generating CSV: ">>)
        /\ Len(LastTable) = 2
        /\ Len(LastTable[1]) = Len(LastMapping)
        /\ Len(LastTable[2]) = Len(LastMapping)
        /\ \A i \in DOMAIN LastMapping :
               /\ LastTable[1][i] = LastMapping[i][1]
               /\ LastTable[2][i] = LastMapping[i][2]

\* a mapping of two fields, one value empty and one holding a comma
C11_Witness ==
    /\ LastAssembled
    /\ Len(LastMapping) = 2
    /\ \E i \in DOMAIN LastMapping : LastMapping[i][2] = <<>>
    /\ \E i \in DOMAIN LastMapping : "," \in Range(LastMapping[i][2])
    /\ Len(LastTable) = 2

\* the record read back from CSV text: the first row names the fields, the
\* second row holds their values
RecordOf(rows) == [i \in DOMAIN rows[1] |-> <<rows[1][i], rows[2][i]>>]

\* C13: the CSV text is a header row in key order followed by one data row,
\* and reading it back as a record yields the original mapping, also for
\* values that are empty or hold commas, quotes or line breaks.
C13_CsvRoundTrip ==
    LastAssembled =>
        LET rows == read_csv(last.csv.v)
        IN  /\ Len(rows) = 2
            /\ rows[1] = [i \in DOMAIN LastMapping |-> LastMapping[i][1]]
            /\ Len(rows[2]) = Len(rows[1])
            /\ RecordOf(rows) = LastMapping

\* a mapping whose values hold a quote and a line break, read back intact
C13_Witness ==
    /\ LastAssembled
    /\ \E i \in DOMAIN LastMapping : "\"" \in Range(LastMapping[i][2])
    /\ \E i \in DOMAIN LastMapping : "\n" \in Range(LastMapping[i][2])
    /\ RecordOf(read_csv(last.csv.v)) = LastMapping

\* ------------------------------------------------- claims on the emit callback
\* this step is a callback of the running session: it is the one kept in last'
CallbackStep == pc = "chat" /\ pc' = "chat"

\* C12: an emit callback whose record_json is not valid JSON returns an
\* explicit error outcome (it does not raise: the session goes on) and leaves
\* the stored CSV and JSON output as they were before the call.
C12_InvalidEmitKeepsOutput ==
    [][(CallbackStep /\ last'.tool = "generate_csv_tool" /\ ~last'.args.doc.valid) =>
          /\ Contains(last'.result, <<"Error generating CSV: ">>)
          /\ output' = output]_vars

\* a failed emit after a successful one: the earlier output is still stored
C12_Witness ==
    /\ pc = "chat"
    /\ last.tool = "generate_csv_tool"
    /\ ~last.args.doc.valid
    /\ Contains(last.result, <<"Error generating CSV: ">>)
    /\ output.set

\* what lookup_tool returns for query q = <<file_key, arguments>> on collection md
Outcome(q, md) == lookup_master_data(entry, q[1], q[2][1], q[2][2], q[2][3], md).out

\* what generate_csv_tool stores when invoked with the arguments args on out
Emitted(args, out) ==
    StoreOutput(entry, args.doc, args.output_filename,
                generate_output_csv(entry, args.doc, args.output_filename), out)

\* C15: the callbacks are idempotent under re-invocation. No callback changes
\* what any lookup returns, so lookup_tool with the same arguments returns the
\* same outcome whatever callbacks ran in between; and generate_csv_tool
\* invoked again with the record it was just invoked with leaves the stored
\* CSV and JSON output as the first invocation left them.
C15_CallbacksIdempotent ==
    [][CallbackStep =>
          /\ master_data' # master_data =>
                 \A q \in AskedQueries :
                     Outcome(q, master_data') = Outcome(q, master_data)
          /\ last'.tool = "lookup_tool" =>
                 Outcome(<<last'.args.file_key,
                           <<last'.args.lookup_column, last'.args.lookup_value,
                             last'.args.return_column>>>>, master_data') = last'.result
          /\ last'.tool = "generate_csv_tool" =>
                 Emitted(last'.args, output') = output']_vars

\* the same lookup was invoked twice and found its row both times
C15_Witness ==
    /\ pc = "chat"
    /\ Len(tool_results) = 2
    /\ tool_results[1].tool = "lookup_tool"
    /\ tool_results[2] = tool_results[1]
    /\ last.kind = "found"

\* ------------------------------------------------ claims on the session's end
\* the CSV text and the JSON object an emit of the record doc produces
CsvOf(doc) == to_csv(DataFrame(json_loads(doc)))
JsonOf(doc) == json_loads(doc)

\* query() has returned, on whichever path
QueryReturned == entry = "agent" /\ pc \in {"returned", "rejected"}

\* C16: when the external service fails after an emit callback has succeeded
\* in the same session, the session reports the failure and stops, and the
\* CSV and JSON of that emit remain available in what the session hands back:
\* the dict returned by query(), or the download state of the app.
C16_EmitSurvivesFailure ==
    (pc = "returned" /\ result = "error" /\ sent /\ lastgood.some) =>
        IF entry = "agent"
        THEN /\ {"csv_data", "json_data"} \subseteq returned.keys
             /\ returned.csv_data = Some(CsvOf(lastgood.v))
             /\ returned.json_data = Some(JsonOf(lastgood.v))
        ELSE /\ output.set
             /\ output.csv = CsvOf(lastgood.v)
             /\ output.json = JsonOf(lastgood.v)

\* C17: every invocation of query() returns a dict that includes the keys
\* csv_data, json_data, tool_calls and raw_response, for every input and
\* every behaviour of the external service.
C17_ReturnsResultKeys ==
    QueryReturned =>
        {"csv_data", "json_data", "tool_calls", "raw_response"} \subseteq returned.keys

\* C18: when query() completes, the returned csv_data and json_data are those
\* of the most recent successful emit (a later failed emit does not clear or
\* alter them), both are None exactly when no emit succeeded, and tool_calls
\* holds one entry per callback invocation, in invocation order.
C18_ReturnsLatestEmit ==
    (QueryReturned /\ result = "complete") =>
        /\ returned.csv_data =
               (IF lastgood.some THEN Some(CsvOf(lastgood.v)) ELSE None)
        /\ returned.json_data =
               (IF lastgood.some THEN Some(JsonOf(lastgood.v)) ELSE None)
        /\ (returned.csv_data = None /\ returned.json_data = None) <=> ~lastgood.some
        /\ Len(returned.tool_calls) = Len(calls)
        /\ \A i \in DOMAIN calls : returned.tool_calls[i].tool = calls[i]
        /\ calls # <<>> =>
               returned.tool_calls[Len(calls)].result = last.result

\* a successful emit, then a failed one, and query() completed
C18_Witness ==
    /\ QueryReturned
    /\ result = "complete"
    /\ calls = <<"generate_csv_tool", "generate_csv_tool">>
    /\ last.kind = "error"
    /\ lastgood.some
    /\ returned.csv_data = Some(CsvOf(lastgood.v))

\* C19: in app.py, the CSV and JSON offered at the end of a run were produced
\* by an emit callback of that same run; a run in which no emit succeeded
\* offers none, even if an earlier run of the browser session produced one.
C19_OfferedFromThisRun ==
    (entry = "app" /\ pc = "returned" /\ result = "complete") =>
        /\ returned.csv_data =
               (IF lastgood.some THEN Some(CsvOf(lastgood.v)) ELSE None)
        /\ returned.json_data =
               (IF lastgood.some THEN Some(JsonOf(lastgood.v)) ELSE None)

\* C14: on every exit path of a session, once its temporary artifacts have been
\* created, the temporary directory no longer exists and every uploaded
\* document has been deleted by the time the outcome is reported.
C14_TempResourcesReleased ==
    (pc = "returned" /\ loaded # <<>>) => (~tempdir /\ deleted = uploaded)

\* C20: loading is all-or-nothing per source: a source reported as failed has
\* left none of its sheets in the collection.
C20_FailedSourceLeavesNothing ==
    LoaderRan =>
        \A i \in Range(reported) :
            \A k \in DOMAIN loaded : loaded[k].df.origin[1] # i

====
